---- MODULE Spec2Model ----
(***************************************************************************)
(* The Ria translator: tokenize (source text -> tokens) and tokens_to_asm  *)
(* (tokens -> assembly text or an error message), and the part of main     *)
(* that chains them.  Text is a sequence of one-character strings; the     *)
(* character U+00E9 is written "E_ACUTE" and U+20AC is written "EURO".     *)
(***************************************************************************)
EXTENDS Integers, Sequences, FiniteSets, TLC

VARIABLES
    given,          \* what the run was started on (family of the input, and for
                    \* "kharrej n;" the n and its digits as written)
    input,          \* tokenize: input (main.rs:20)
    pos,            \* tokenize: position of chars.peek() (main.rs:22)
    tokens,         \* tokenize: tokens (main.rs:21); tokens_to_asm: tokens
    pc,             \* "lex", "main", "gen" or "done"
    i,              \* tokens_to_asm: i (main.rs:87)
    found_return,   \* tokens_to_asm: found_return (main.rs:88)
    asm_code,       \* tokens_to_asm: asm_code (main.rs:81)
    result          \* what tokens_to_asm returned, or main's early exit

vars == <<given, input, pos, tokens, pc, i, found_return, asm_code, result>>

(***************************************************************************)
(* Bounds of the explored inputs.                                          *)
(***************************************************************************)
MaxItems == 3
MaxPieces == 3
MaxWs == 1
MaxPad == 1
ValTop == 260

(***************************************************************************)
(* Characters.                                                             *)
(***************************************************************************)
DigitSeq == <<"0", "1", "2", "3", "4", "5", "6", "7", "8", "9">>

Digits == {DigitSeq[k] : k \in 1..10}

DigitChar(d) == DigitSeq[d + 1]

DigitVal(c) == CHOOSE d \in 0..9 : DigitSeq[d + 1] = c

AsciiLetters == {"k", "h", "a", "r", "e", "j", "x", "K"}

NonAsciiAlphabetic == {"E_ACUTE"}

\* 'a'..='z' | 'A'..='Z'
IsAsciiLetter(c) == c \in AsciiLetters

\* char::is_alphabetic: the Unicode Alphabetic property
IsAlphabetic(ch) == ch \in AsciiLetters \cup NonAsciiAlphabetic

\* the test that continues an identifier run
IsIdentChar(ch) == IsAlphabetic(ch)

\* '0'..='9' and char::is_digit(10)
IsDigitChar(ch) == ch \in Digits

IsWhitespace(c) == c \in {" ", "\t", "\n", "\r"}

Keyword == <<"k", "h", "a", "r", "r", "e", "j">>

(***************************************************************************)
(* Tokens.  Option<String> is a sequence of length 0 (None) or 1 (Some).   *)
(***************************************************************************)
None == <<>>

Some(s) == <<s>>

Token(tt, v) == [token_type |-> tt, value |-> v]

ReturnTok == Token("Return", None)

SemiTok == Token("Semi", None)

NumberTok(text) == Token("Number", Some(text))

(***************************************************************************)
(* i32 parsing and formatting.                                             *)
(***************************************************************************)
I32Max == 2147483647

I32Min == (-I32Max) - 1

ExitCodeMax == 255

ParseErr == [ok |-> FALSE, val |-> 0]

RECURSIVE Accumulate(_, _, _)
\* the checked digit loop of i32::from_str: checked_mul(10), then
\* checked_add(d) for a positive number and checked_sub(d) for a negative one
Accumulate(digits, acc, positive) ==
    IF digits = <<>> THEN [ok |-> TRUE, val |-> acc]
    ELSE IF Head(digits) \notin Digits THEN ParseErr
    ELSE LET d == DigitVal(Head(digits)) IN
         IF positive
         THEN IF acc > I32Max \div 10 \/ acc * 10 > I32Max - d
              THEN ParseErr
              ELSE Accumulate(Tail(digits), acc * 10 + d, positive)
         ELSE IF acc < -(I32Max \div 10) \/ acc * 10 < I32Min + d
              THEN ParseErr
              ELSE Accumulate(Tail(digits), acc * 10 - d, positive)

\* value.parse::<i32>()
Parse(text) ==
    IF text = <<>> THEN ParseErr
    ELSE IF Head(text) \in {"+", "-"}
         THEN IF Len(text) = 1 THEN ParseErr
              ELSE Accumulate(Tail(text), 0, Head(text) = "+")
         ELSE Accumulate(text, 0, TRUE)

RECURSIVE NatText(_)
NatText(n) ==
    IF n < 10 THEN <<DigitChar(n)>>
    ELSE Append(NatText(n \div 10), DigitChar(n % 10))

RECURSIVE NegText(_)
\* the digits of |v| for v < 0, computed without negating v
NegText(v) ==
    LET r == (10 - (v % 10)) % 10
        q == (v + r) \div 10
    IN  IF q = 0 THEN <<DigitChar(r)>> ELSE Append(NegText(q), DigitChar(r))

\* Display for i32, as used by format!("{}", exit_code)
ToText(v) == IF v >= 0 THEN NatText(v) ELSE <<"-">> \o NegText(v)

\* (0..=255).contains(&exit_code)
InRange(exit_code) == exit_code >= 0 /\ exit_code <= ExitCodeMax

(***************************************************************************)
(* Assembly text: a sequence of lines; arg is the text substituted for {}. *)
(***************************************************************************)
Line(text, arg) == [text |-> text, arg |-> arg]

Header ==
    << Line("global _start", <<>>),
       Line("section .text", <<>>),
       Line("_start:", <<>>) >>

\* an exit block that loads the exit code before the syscall number
ExitBlockSwapped(exit_code) ==
    << Line("    mov rdi, {}    ; exit code", ToText(exit_code)),
       Line("    mov rax, 60     ; sys_exit", <<>>),
       Line("    syscall", <<>>) >>

ExitBlock(exit_code) ==
    << Line("    mov rax, 60     ; sys_exit", <<>>),
       Line("    mov rdi, {}    ; exit code", ToText(exit_code)),
       Line("    syscall", <<>>) >>

(***************************************************************************)
(* Results.  err is the message, arg the text formatted into it.           *)
(***************************************************************************)
IncompleteStatement == "Incomplete return statement: expected 'kharrej <number>;'"

MissingSemicolon == "Expected semicolon after number"

MissingNumber == "Expected number after 'kharrej'"

OutOfRange == "Exit code must be between 0 and 255, got {}"

InvalidNumber == "Invalid number: '{}'"

NoStatementFound == "No 'kharrej' statement found"

NoTokensFound == "No tokens found in file"

Pending == [ok |-> FALSE, asm |-> <<>>, err |-> "pending", arg |-> <<>>]

Ok(asm) == [ok |-> TRUE, asm |-> asm, err |-> "", arg |-> <<>>]

Err(msg, arg) == [ok |-> FALSE, asm |-> <<>>, err |-> msg, arg |-> arg]

(***************************************************************************)
(* tokenize: one action per iteration of the outer loop.  pos is the       *)
(* position of the character chars.peek() returns (1-based).               *)
(***************************************************************************)
RECURSIVE IdentEnd(_, _)
\* the inner loop of the identifier branch: the position after the run
IdentEnd(s, p) ==
    IF p <= Len(s) /\ IsIdentChar(s[p]) THEN IdentEnd(s, p + 1) ELSE p

\* a number run cut after its first digit
NumberEndFirstDigit(s, p) == p + 1

RECURSIVE NumberEnd(_, _)
\* the inner loop of the number branch: the position after the run
NumberEnd(s, p) ==
    IF p <= Len(s) /\ IsDigitChar(s[p]) THEN NumberEnd(s, p + 1) ELSE p

LexIdent ==
    /\ pc = "lex" /\ pos <= Len(input)
    /\ IsAsciiLetter(input[pos])
    /\ LET e == IdentEnd(input, pos)
           identifier == SubSeq(input, pos, e - 1)
       IN  /\ pos' = e
           /\ tokens' = IF identifier = Keyword
                        THEN Append(tokens, Token("Return", None))
                        ELSE tokens
    /\ UNCHANGED <<given, input, pc, i, found_return, asm_code, result>>

LexNumber ==
    /\ pc = "lex" /\ pos <= Len(input)
    /\ IsDigitChar(input[pos])
    /\ LET e == NumberEnd(input, pos)
           number == SubSeq(input, pos, e - 1)
       IN  /\ pos' = e
           /\ tokens' = Append(tokens, Token("Number", Some(number)))
    /\ UNCHANGED <<given, input, pc, i, found_return, asm_code, result>>

LexSemi ==
    /\ pc = "lex" /\ pos <= Len(input)
    /\ input[pos] = ";"
    /\ tokens' = Append(tokens, Token("Semi", None))
    /\ pos' = pos + 1
    /\ UNCHANGED <<given, input, pc, i, found_return, asm_code, result>>

LexWhitespace ==
    /\ pc = "lex" /\ pos <= Len(input)
    /\ IsWhitespace(input[pos])
    /\ pos' = pos + 1
    /\ UNCHANGED <<given, input, tokens, pc, i, found_return, asm_code, result>>

LexOther ==
    /\ pc = "lex" /\ pos <= Len(input)
    /\ ~IsAsciiLetter(input[pos]) /\ ~IsDigitChar(input[pos])
    /\ input[pos] # ";" /\ ~IsWhitespace(input[pos])
    /\ pos' = pos + 1
    /\ UNCHANGED <<given, input, tokens, pc, i, found_return, asm_code, result>>

\* chars.peek() is None: tokenize returns its tokens to main
LexReturn ==
    /\ pc = "lex" /\ pos > Len(input)
    /\ pc' = "main"
    /\ UNCHANGED <<given, input, pos, tokens, i, found_return, asm_code, result>>

(***************************************************************************)
(* main, between tokenize and tokens_to_asm.                               *)
(***************************************************************************)
MainNoTokens ==
    /\ pc = "main" /\ tokens = <<>>
    /\ result' = Err(NoTokensFound, <<>>)
    /\ pc' = "done"
    /\ UNCHANGED <<given, input, pos, tokens, i, found_return, asm_code>>

MainGenerate ==
    /\ pc = "main" /\ tokens # <<>>
    /\ asm_code' = Header
    /\ i' = 0
    /\ found_return' = FALSE
    /\ pc' = "gen"
    /\ UNCHANGED <<given, input, pos, tokens, result>>

(***************************************************************************)
(* tokens_to_asm: one action per path through one iteration of the loop.   *)
(* i is the 0-based index of the code; At reads tokens[k].                 *)
(***************************************************************************)
At(toks, k) == toks[k + 1]

\* the length check made only once the next token is seen to be a number
IncompleteAfterNumber(toks, k) ==
    /\ k + 2 >= Len(toks)
    /\ (k + 1 < Len(toks) => At(toks, k + 1).token_type = "Number")

\* i + 2 >= tokens.len()
Incomplete(toks, k) == k + 2 >= Len(toks)

\* a skip one token too far
SkipTooFar == 2 + 1

\* the tokens the match arm consumes beyond the keyword
SkipAhead == 2

\* "no statement" decided by the absence of output instead of the flag
FinishByOutput(found, asm) ==
    IF asm = Header THEN Err(NoStatementFound, <<>>) ELSE Ok(asm)

\* the tail of the function, after the loop
Finish(found, asm) ==
    IF ~found THEN Err(NoStatementFound, <<>>) ELSE Ok(asm)

AtReturn ==
    /\ pc = "gen" /\ i < Len(tokens)
    /\ At(tokens, i).token_type = "Return"

Fail(msg, arg) ==
    /\ found_return' = TRUE
    /\ result' = Err(msg, arg)
    /\ pc' = "done"
    /\ UNCHANGED <<given, input, pos, tokens, i, asm_code>>

GenAdvance ==
    /\ pc = "gen" /\ i < Len(tokens)
    /\ At(tokens, i).token_type # "Return"
    /\ i' = i + 1
    /\ UNCHANGED <<given, input, pos, tokens, pc, found_return, asm_code, result>>

GenIncomplete ==
    /\ AtReturn
    /\ Incomplete(tokens, i)
    /\ Fail(IncompleteStatement, <<>>)

GenMissingNumber ==
    /\ AtReturn
    /\ ~Incomplete(tokens, i)
    /\ At(tokens, i + 1).token_type # "Number"
    /\ Fail(MissingNumber, <<>>)

GenMissingSemicolon ==
    /\ AtReturn
    /\ ~Incomplete(tokens, i)
    /\ At(tokens, i + 1).token_type = "Number"
    /\ At(tokens, i + 2).token_type # "Semi"
    /\ Fail(MissingSemicolon, <<>>)

AtStatement ==
    /\ AtReturn
    /\ ~Incomplete(tokens, i)
    /\ At(tokens, i + 1).token_type = "Number"
    /\ At(tokens, i + 2).token_type = "Semi"

GenEmit ==
    /\ AtStatement
    /\ At(tokens, i + 1).value # None
    /\ LET parsed == Parse(At(tokens, i + 1).value[1])
       IN  /\ parsed.ok /\ InRange(parsed.val)
           /\ asm_code' = asm_code \o ExitBlock(parsed.val)
    /\ i' = i + SkipAhead + 1
    /\ found_return' = TRUE
    /\ UNCHANGED <<given, input, pos, tokens, pc, result>>

GenOutOfRange ==
    /\ AtStatement
    /\ At(tokens, i + 1).value # None
    /\ LET parsed == Parse(At(tokens, i + 1).value[1])
       IN  /\ parsed.ok /\ ~InRange(parsed.val)
           /\ Fail(OutOfRange, ToText(parsed.val))

GenInvalidNumber ==
    /\ AtStatement
    /\ At(tokens, i + 1).value # None
    /\ ~Parse(At(tokens, i + 1).value[1]).ok
    /\ Fail(InvalidNumber, At(tokens, i + 1).value[1])

\* if let Some(value) fails: the arm does nothing
GenNoValue ==
    /\ AtStatement
    /\ At(tokens, i + 1).value = None
    /\ i' = i + 1
    /\ found_return' = TRUE
    /\ UNCHANGED <<given, input, pos, tokens, pc, asm_code, result>>

GenFinish ==
    /\ pc = "gen" /\ i >= Len(tokens)
    /\ result' = Finish(found_return, asm_code)
    /\ pc' = "done"
    /\ UNCHANGED <<given, input, pos, tokens, i, found_return, asm_code>>

(***************************************************************************)
(* Inputs.                                                                 *)
(***************************************************************************)
RECURSIVE Concat(_)
Concat(ss) == IF ss = <<>> THEN <<>> ELSE Head(ss) \o Concat(Tail(ss))

SeqsUpTo(S, n) == UNION {[1..k -> S] : k \in 0..n}

Rep(c, k) == [j \in 1..k |-> c]

D(ns) == [k \in 1..Len(ns) |-> DigitChar(ns[k])]

TokenItems ==
    { <<Token("Return", None)>>,
      <<Token("Semi", None)>>,
      <<Token("Number", None)>>,
      <<Token("Number", Some(<<"5">>))>>,
      <<Token("Return", None), Token("Number", None), Token("Semi", None)>>,
      <<Token("Return", None), Token("Number", Some(<<"1">>)), Token("Semi", None)>>,
      <<Token("Return", None), Token("Number", Some(<<"2">>)), Token("Semi", None)>>,
      <<Token("Return", None), Token("Number", Some(<<"2", "5", "6">>)), Token("Semi", None)>>,
      <<Token("Return", None), Token("Number", Some(<<"x">>)), Token("Semi", None)>> }

SpecialTexts ==
    { D(<<2, 1, 4, 7, 4, 8, 3, 6, 4, 7>>),
      D(<<2, 1, 4, 7, 4, 8, 3, 6, 4, 8>>),
      D(<<9, 9, 9, 9, 9, 9, 9, 9, 9, 9, 9>>),
      D(<<0, 0, 0, 0, 0, 0, 0, 0, 0, 0, 0, 2, 5, 5>>),
      D(<<0, 0, 0, 0, 0, 0, 0, 0, 0, 0, 0, 2, 5, 6>>),
      <<"-">> \o D(<<2, 1, 4, 7, 4, 8, 3, 6, 4, 8>>),
      <<"-">> \o D(<<2, 1, 4, 7, 4, 8, 3, 6, 4, 9>>),
      <<"-", "1">>, <<"-", "0">>, <<"-", "2", "5", "6">>, <<"+", "5">>,
      <<"-">>, <<"+">>, <<>>, <<"1", "x">>, <<"1", "-", "2">>,
      <<"0", "0", "7">> }

StmtTexts == {NatText(n) : n \in 0..ValTop} \cup SpecialTexts

SourcePieces ==
    { Keyword,
      <<"k">>,
      <<"K", "h", "a", "r", "r", "e", "j">>,
      <<"E_ACUTE">>,
      <<"EURO">>,
      <<"7">>,
      <<";">>,
      <<" ">> }

RoundTripSource(n, z, a, b, c, d) ==
    Rep(" ", a) \o Keyword \o Rep("\t", b) \o Rep("0", z) \o NatText(n)
        \o Rep("\n", c) \o <<";">> \o Rep("\r", d)

\* a direct call of tokens_to_asm: its locals are initialised
CallGenerate(toks, fam) ==
    /\ given = [family |-> fam, n |-> 0, written |-> <<>>]
    /\ tokens = toks
    /\ input = <<>> /\ pos = 1
    /\ pc = "gen" /\ i = 0 /\ found_return = FALSE /\ asm_code = Header
    /\ result = Pending

\* a run of main on the file content src
CallMain(src, g) ==
    /\ given = g
    /\ input = src /\ pos = 1 /\ tokens = <<>>
    /\ pc = "lex" /\ i = 0 /\ found_return = FALSE /\ asm_code = <<>>
    /\ result = Pending

Init ==
    \/ \E its \in SeqsUpTo(TokenItems, MaxItems) :
          CallGenerate(Concat(its), "tokens")
    \/ \E t \in StmtTexts :
          CallGenerate(<<Token("Return", None), Token("Number", Some(t)),
                         Token("Semi", None)>>, "statement")
    \/ \E ps \in SeqsUpTo(SourcePieces, MaxPieces) :
          CallMain(Concat(ps), [family |-> "source", n |-> 0, written |-> <<>>])
    \/ \E n \in 0..ExitCodeMax, z \in 0..MaxPad :
       \E a \in 0..MaxWs, b \in 0..MaxWs, c \in 0..MaxWs, d \in 0..MaxWs :
          CallMain(RoundTripSource(n, z, a, b, c, d),
                   [family |-> "roundtrip", n |-> n,
                    written |-> Rep("0", z) \o NatText(n)])

Next ==
    \/ LexIdent \/ LexNumber \/ LexSemi \/ LexWhitespace \/ LexOther
    \/ LexReturn
    \/ MainNoTokens \/ MainGenerate
    \/ GenAdvance \/ GenIncomplete \/ GenMissingNumber \/ GenMissingSemicolon
    \/ GenEmit \/ GenOutOfRange \/ GenInvalidNumber \/ GenNoValue
    \/ GenFinish

Spec == Init /\ [][Next]_vars

(***************************************************************************)
(* What the specification says, stated without the code's operators.       *)
(***************************************************************************)
Generated == pc = "done" /\ result.err # NoTokensFound

ReturnPositions(toks) ==
    {k \in 0..(Len(toks) - 1) : At(toks, k).token_type = "Return"}

Least(S) == CHOOSE k \in S : \A m \in S : k <= m

AllDigits(t) == \A k \in 1..Len(t) : t[k] \in Digits

Unsigned(t) == IF t # <<>> /\ Head(t) \in {"+", "-"} THEN Tail(t) ELSE t

\* an optional sign followed by at least one decimal digit
IsSignedIntegerText(t) == Unsigned(t) # <<>> /\ AllDigits(Unsigned(t))

\* an optional minus sign followed by at least one decimal digit
IsDecimalText(t) ==
    /\ IsSignedIntegerText(t)
    /\ Head(t) # "+"

RECURSIVE StripZeros(_)
StripZeros(t) ==
    IF Len(t) > 1 /\ Head(t) = "0" THEN StripZeros(Tail(t)) ELSE t

Magnitude(t) == StripZeros(Unsigned(t))

IsNegativeText(t) == Head(t) = "-" /\ Magnitude(t) # <<"0">>

\* the decimal text of the integer that t denotes
Canon(t) == IF IsNegativeText(t) THEN <<"-">> \o Magnitude(t) ELSE Magnitude(t)

RECURSIVE SmallValue(_)
SmallValue(t) ==
    IF t = <<>> THEN 0
    ELSE 10 * SmallValue(SubSeq(t, 1, Len(t) - 1)) + DigitVal(t[Len(t)])

\* the integer that t denotes lies in [0, 255]
InByteRange(t) ==
    /\ ~IsNegativeText(t)
    /\ Len(Magnitude(t)) <= 3
    /\ SmallValue(Magnitude(t)) <= 255

FewerThanTwoFollow(toks, k) == Len(toks) - (k + 1) < 2

KindsMatch(toks, k) ==
    /\ ~FewerThanTwoFollow(toks, k)
    /\ At(toks, k + 1).token_type = "Number"
    /\ At(toks, k + 2).token_type = "Semi"

\* the errors the ordered rules allow for the keyword at k ({} when none)
RuleErrors(toks, k) ==
    IF FewerThanTwoFollow(toks, k) THEN {IncompleteStatement}
    ELSE IF At(toks, k + 1).token_type # "Number" THEN {MissingNumber}
    ELSE IF At(toks, k + 2).token_type # "Semi" THEN {MissingSemicolon}
    ELSE IF At(toks, k + 1).value = None THEN {}
    ELSE LET t == At(toks, k + 1).value[1] IN
         IF ~IsSignedIntegerText(t) THEN {InvalidNumber}
         ELSE IF ~InByteRange(t) THEN {InvalidNumber, OutOfRange}
         ELSE {}

Violating(toks) == {k \in ReturnPositions(toks) : RuleErrors(toks, k) # {}}

StatementErrors ==
    {IncompleteStatement, MissingNumber, MissingSemicolon, InvalidNumber, OutOfRange}

\* the literal text of the single statement of the "statement" family
StatementText == At(tokens, 1).value[1]

(***************************************************************************)
(* C1                                                                      *)
(***************************************************************************)
\* C1 (as stated): tokens_to_asm on [Return, Semi] fails with the
\* "expected number after keyword" error.
C1_AsStated ==
    (Generated /\ tokens = <<ReturnTok, SemiTok>>) => result.err = MissingNumber

\* C1 (amended): tokens_to_asm on [Return, Semi] fails with the
\* "incomplete statement" error, because fewer than two tokens follow the
\* keyword.
C1_IncompleteNotMissingNumber ==
    (Generated /\ tokens = <<ReturnTok, SemiTok>>)
        => (~result.ok /\ result.err = IncompleteStatement)

C1_Witness ==
    /\ Generated /\ tokens = <<ReturnTok, SemiTok>>
    /\ result.err = IncompleteStatement

(***************************************************************************)
(* C2                                                                      *)
(***************************************************************************)
\* C2: at every keyword the generator examines the rules apply in order:
\* fewer than two following tokens gives IncompleteStatement whatever the
\* tokens are; else a next token that is no NumberLiteral gives
\* MissingNumber; else a third token that is no Semicolon gives
\* MissingSemicolon; only then the number errors, InvalidNumber for a text
\* that is no integer coming before OutOfRange.  A keyword the scan has
\* passed broke none of the first three rules.
C2_OrderedRules ==
    /\ (pc \in {"gen", "done"})
          => \A k \in ReturnPositions(tokens) : k < i => KindsMatch(tokens, k)
    /\ (Generated /\ result.err \in StatementErrors)
          => /\ i \in ReturnPositions(tokens)
             /\ FewerThanTwoFollow(tokens, i) => result.err = IncompleteStatement
             /\ (~FewerThanTwoFollow(tokens, i)
                    /\ At(tokens, i + 1).token_type # "Number")
                   => result.err = MissingNumber
             /\ (~FewerThanTwoFollow(tokens, i)
                    /\ At(tokens, i + 1).token_type = "Number"
                    /\ At(tokens, i + 2).token_type # "Semi")
                   => result.err = MissingSemicolon
             /\ KindsMatch(tokens, i)
                   => /\ result.err \in {InvalidNumber, OutOfRange}
                      /\ At(tokens, i + 1).value # None
                      /\ ~IsSignedIntegerText(At(tokens, i + 1).value[1])
                            => result.err = InvalidNumber
                      /\ result.err = OutOfRange
                            => IsSignedIntegerText(At(tokens, i + 1).value[1])

C2_Witness ==
    /\ Generated /\ tokens = <<ReturnTok, NumberTok(<<"5">>)>>
    /\ result.err = IncompleteStatement

(***************************************************************************)
(* C3                                                                      *)
(***************************************************************************)
\* C3: tokens_to_asm fails with NoStatementFound exactly when the token
\* sequence holds no Return token.
C3_NoStatementIff ==
    Generated =>
        ((~result.ok /\ result.err = NoStatementFound)
            <=> ReturnPositions(tokens) = {})

C3_Witness ==
    /\ Generated /\ tokens # <<>> /\ ReturnPositions(tokens) = {}
    /\ result.err = NoStatementFound

(***************************************************************************)
(* C4                                                                      *)
(***************************************************************************)
NumbersCarryText(toks) ==
    \A k \in 0..(Len(toks) - 1) :
        At(toks, k).token_type = "Number" => At(toks, k).value # None

FixedHeader ==
    << [text |-> "global _start", arg |-> <<>>],
       [text |-> "section .text", arg |-> <<>>],
       [text |-> "_start:", arg |-> <<>>] >>

ExpectedBlock(t) ==
    << [text |-> "    mov rax, 60     ; sys_exit", arg |-> <<>>],
       [text |-> "    mov rdi, {}    ; exit code", arg |-> t],
       [text |-> "    syscall", arg |-> <<>>] >>

RECURSIVE ExpectedBlocks(_, _)
\* one block per Return token at index k or later, in order
ExpectedBlocks(toks, k) ==
    IF k >= Len(toks) THEN <<>>
    ELSE IF At(toks, k).token_type # "Return" THEN ExpectedBlocks(toks, k + 1)
    ELSE IF k + 1 < Len(toks) /\ At(toks, k + 1).value # None
         THEN ExpectedBlock(Canon(At(toks, k + 1).value[1]))
                  \o ExpectedBlocks(toks, k + 1)
         ELSE ExpectedBlock(<<"?">>) \o ExpectedBlocks(toks, k + 1)

\* C4: when every NumberLiteral carries its text and tokens_to_asm succeeds,
\* the output is the fixed header followed by one exit block per Return
\* token, in the order of the keywords, each with the integer value of the
\* literal after its keyword.
C4_OneBlockPerKeyword ==
    (Generated /\ result.ok /\ NumbersCarryText(tokens))
        => result.asm = FixedHeader \o ExpectedBlocks(tokens, 0)

C4_Witness ==
    /\ Generated /\ result.ok
    /\ tokens = <<ReturnTok, NumberTok(<<"1">>), SemiTok,
                  ReturnTok, NumberTok(<<"2">>), SemiTok,
                  NumberTok(<<"5">>)>>
    /\ Len(result.asm) = 9
    /\ result.asm[5].arg = <<"1">> /\ result.asm[8].arg = <<"2">>

(***************************************************************************)
(* C5                                                                      *)
(***************************************************************************)
\* C5: tokens_to_asm on [Return, NumberLiteral(t), Semi], t the decimal text
\* of an integer v (a leading minus sign allowed), succeeds exactly when
\* 0 <= v <= 255 and otherwise fails with OutOfRange reporting v.
C5_RangeDecidesAlone ==
    (Generated /\ given.family = "statement" /\ IsDecimalText(StatementText))
        => /\ result.ok <=> InByteRange(StatementText)
           /\ ~InByteRange(StatementText)
                 => /\ result.err = OutOfRange
                    /\ result.arg = Canon(StatementText)

(***************************************************************************)
(* C6                                                                      *)
(***************************************************************************)
\* C6: for a statement whose literal text is a non-empty string of decimal
\* digits, of any length, the result is never InvalidNumber: it is success
\* when the value is at most 255 and OutOfRange otherwise.
C6_DigitsNeverInvalid ==
    (Generated /\ given.family = "statement"
        /\ StatementText # <<>> /\ AllDigits(StatementText))
        => /\ result.err # InvalidNumber
           /\ InByteRange(StatementText) => result.ok
           /\ ~InByteRange(StatementText) => result.err = OutOfRange

(***************************************************************************)
(* C7                                                                      *)
(***************************************************************************)
\* C7: if any Return occurrence breaks the statement pattern, tokens_to_asm
\* returns one error, that of the leftmost such occurrence, and no assembly
\* text, whatever blocks earlier statements had appended; and the scan never
\* moves past a Return occurrence that breaks the pattern.
C7_AllOrNothing ==
    /\ (pc \in {"gen", "done"})
          => \A k \in Violating(tokens) : i <= k
    /\ (Generated /\ Violating(tokens) # {})
          => /\ ~result.ok
             /\ result.asm = <<>>
             /\ i = Least(Violating(tokens))
             /\ result.err \in RuleErrors(tokens, i)

C7_Witness ==
    /\ Generated /\ ~result.ok
    /\ Len(asm_code) > Len(FixedHeader)
    /\ i = Least(Violating(tokens))
    /\ \E k \in Violating(tokens) : k > i

(***************************************************************************)
(* C8                                                                      *)
(***************************************************************************)
RECURSIVE AsciiRunEnd(_, _)
AsciiRunEnd(s, p) ==
    IF p <= Len(s) /\ s[p] \in AsciiLetters THEN AsciiRunEnd(s, p + 1) ELSE p

\* the start positions of the maximal runs of ASCII letters that spell the
\* keyword
KeywordRuns(s) ==
    {p \in 1..Len(s) :
        /\ s[p] \in AsciiLetters
        /\ (p = 1 \/ s[p - 1] \notin AsciiLetters)
        /\ SubSeq(s, p, AsciiRunEnd(s, p) - 1) = Keyword}

\* C8: tokenize emits a Return token for every maximal run of ASCII letters
\* that is exactly "kharrej" and for no other run; a non-ASCII character is
\* discarded on its own and never becomes part of an identifier.
C8_AsciiRunsOnly ==
    (given.family = "source" /\ pc # "lex")
        => Cardinality(ReturnPositions(tokens)) = Cardinality(KeywordRuns(input))

(***************************************************************************)
(* C9                                                                      *)
(***************************************************************************)
SyscallLines(asm) == {k \in 1..Len(asm) : asm[k].text = "    syscall"}

\* C9: for n in 0..255 written in decimal digits with any whitespace around
\* the tokens, tokenize("kharrej n;") is exactly
\* [Return, NumberLiteral(the digits as written), Semi], and tokens_to_asm of
\* it succeeds with one exit block whose argument line holds n.
C9_RoundTrip ==
    given.family = "roundtrip"
        => /\ pc # "lex"
                 => tokens = <<ReturnTok, NumberTok(given.written), SemiTok>>
           /\ pc = "done"
                 => /\ result.ok
                    /\ Cardinality(SyscallLines(result.asm)) = 1
                    /\ result.asm = FixedHeader \o ExpectedBlock(Canon(given.written))
                    /\ SmallValue(result.asm[5].arg) = given.n

C9_Witness ==
    /\ given.family = "roundtrip" /\ pc = "done" /\ result.ok
    /\ given.n = 255
    /\ given.written = <<"0", "2", "5", "5">>
    /\ Len(input) > Len(Keyword) + Len(given.written) + 1
    /\ result.asm[5].arg = <<"2", "5", "5">>

(***************************************************************************)
(* C10                                                                     *)
(***************************************************************************)
\* C10: for every token sequence, a NumberLiteral without text included, a
\* successful tokens_to_asm returns at least one exit sequence, never the
\* header alone.
C10_NeverHeaderOnly ==
    (Generated /\ result.ok) => SyscallLines(result.asm) # {}

====
